---- MODULE Spec2Model ----
(***************************************************************************)
(* Fleet hardware discovery and deployment planning                         *)
(* (src/utils/preflight_checker.py, class PreflightChecker).                *)
(*                                                                          *)
(* Spec      : one PreflightChecker object; discover_nodes fans one task    *)
(*             per host out to a thread pool, build_deployment_plan         *)
(*             partitions the discovered nodes.                             *)
(* SpecScore : _generate_recommendations applied to one NodeCapabilities    *)
(*             drawn from the tier boundaries of every scoring axis.        *)
(*                                                                          *)
(* SpecPool  : the thread pool of discover_nodes with more hosts than the   *)
(*             pool has workers.  SpecPoolFair adds fair scheduling.        *)
(* SpecProbe : one host's task, command by command, connection by           *)
(*             connection.                                                  *)
(* SpecRender: the renderers called again and again on a built plan.        *)
(* SpecAgents: AgentManager (src/webui/agents/agent_manager.py):            *)
(*             submit_task coroutines interleaved with cancel_task.         *)
(*                                                                          *)
(* Quantities the code holds as floats (GB, Gbps) are whole numbers here.   *)
(***************************************************************************)
EXTENDS Integers, Sequences, FiniteSets, TLC

VARIABLES
    phase,            \* position of the caller: constructed, discovering, ...
    node_list,        \* argument of discover_nodes: sequence of descriptors
    nodes,            \* self.nodes: sequence of NodeCapabilities
    task,             \* state of the future submitted for each node
    plan_status,      \* outcome of build_deployment_plan: none / ok / error
    deployment_plan,  \* self.deployment_plan
    pc,               \* SpecProbe: probe and command the task is at
    conns,            \* SpecProbe: SSH connections of the task (history)
    ran,              \* SpecProbe: probes entered so far, in order (history)
    rendered,         \* SpecRender: the last render call and what it returned
    builds,           \* calls of build_deployment_plan so far (history)
    manager           \* SpecAgents: the AgentManager object and its callers

probe_vars == <<pc, conns, ran, rendered, manager>>

vars == <<phase, node_list, nodes, task, plan_status, deployment_plan,
          pc, conns, ran, rendered, builds, manager>>

\* ------------------------------------------------------------------------
\* Bounds
\* ------------------------------------------------------------------------
MaxHosts == 3
MaxStalled == 1
MaxBuilds == 2

\* ------------------------------------------------------------------------
\* Program constants
\* ------------------------------------------------------------------------
PoolCap == 10
DefaultPriority == 1
MasterThreshold == 15
GpuBaseScore == 20

Min(a, b) == IF a < b THEN a ELSE b

RECURSIVE SumSeq(_)
SumSeq(s) == IF s = <<>> THEN 0 ELSE Head(s) + SumSeq(Tail(s))

\* ------------------------------------------------------------------------
\* NodeCapabilities (dataclass), at the defaults the dataclass declares.
\* Strings are "" or a token; the identity fields other than hostname are
\* left out.
\* ------------------------------------------------------------------------
NodeCapabilities(hostname) ==
    [hostname             |-> hostname,
     cpu_cores            |-> 0,
     total_memory_gb      |-> 0,
     total_storage_gb     |-> 0,
     fast_storage_gb      |-> 0,
     gpu_count            |-> 0,
     total_gpu_memory_gb  |-> 0,
     network_speed_gbps   |-> 0,
     cpu_model            |-> "",
     cpu_frequency        |-> 0,
     available_memory_gb  |-> 0,
     storage_devices      |-> <<>>,
     gpu_devices          |-> <<>>,
     network_interfaces   |-> <<>>,
     primary_interface    |-> "",
     os_name              |-> "",
     os_version           |-> "",
     kernel_version       |-> "",
     docker_installed     |-> FALSE,
     containerd_installed |-> FALSE,
     kubernetes_installed |-> FALSE,
     recommended_role     |-> "worker",
     recommended_priority |-> DefaultPriority]

\* ------------------------------------------------------------------------
\* Probes, one step each, on the fields the scorer and the planner read.
\* Each takes the node and what the remote host answered; an answer with
\* ok = FALSE stands for a command or parse exception raised before the
\* probe assigned any of those fields, which the probe catches.  (SpecProbe
\* below takes the probes command by command, with every field.)
\* ------------------------------------------------------------------------
DiscoverCpuInfo(node, out) ==
    IF out.ok THEN [node EXCEPT !.cpu_cores = out.cores] ELSE node

DiscoverMemoryInfo(node, out) ==
    IF out.ok THEN [node EXCEPT !.total_memory_gb = out.total] ELSE node

\* lsblk devices: every listed device adds to total_storage; a device of
\* type disk adds to fast_storage when it is NVMe or non-rotational.
RECURSIVE TotalStorage(_)
TotalStorage(devs) ==
    IF devs = <<>> THEN 0 ELSE Head(devs).size + TotalStorage(Tail(devs))

IsFast(dev) == dev.type = "disk" /\ (dev.nvme \/ dev.rota = "0")

RECURSIVE FastStorage(_)
FastStorage(devs) ==
    IF devs = <<>> THEN 0
    ELSE (IF IsFast(Head(devs)) THEN Head(devs).size ELSE 0)
         + FastStorage(Tail(devs))

DiscoverStorageInfo(node, out) ==
    IF out.ok
    THEN [node EXCEPT !.total_storage_gb = TotalStorage(out.devices),
                      !.fast_storage_gb  = FastStorage(out.devices)]
    ELSE node

\* nvidia-smi: one line per GPU carrying its memory; no tool or no output
\* leaves the defaults.
DiscoverGpuInfo(node, out) ==
    IF out.ok /\ out.tool /\ out.mems # <<>>
    THEN [node EXCEPT !.total_gpu_memory_gb = SumSeq(out.mems),
                      !.gpu_count           = Len(out.mems)]
    ELSE node

DiscoverNetworkInfo(node, out) ==
    IF out.ok THEN [node EXCEPT !.network_speed_gbps = out.speed] ELSE node

\* ------------------------------------------------------------------------
\* _generate_recommendations: additive tier score, then the role.
\* ------------------------------------------------------------------------
CpuScore(cores) ==
    IF cores >= 16 THEN 10 ELSE IF cores >= 8 THEN 5
    ELSE IF cores >= 4 THEN 2 ELSE 0

MemoryScoreSwapped(mem) ==
    IF mem >= 64 THEN 5 ELSE IF mem >= 32 THEN 10
    ELSE IF mem >= 16 THEN 2 ELSE 0

MemoryScore(mem) ==
    IF mem >= 64 THEN 10 ELSE IF mem >= 32 THEN 5
    ELSE IF mem >= 16 THEN 2 ELSE 0

StorageScore(fast) ==
    IF fast >= 500 THEN 10 ELSE IF fast >= 100 THEN 5
    ELSE IF fast >= 50 THEN 2 ELSE 0

NetworkScore(speed) ==
    IF speed >= 25 THEN 10 ELSE IF speed >= 10 THEN 5
    ELSE IF speed >= 1 THEN 2 ELSE 0

GpuScore(count, mem) ==
    IF count > 0
    THEN GpuBaseScore +
         (IF mem >= 80 THEN 15 ELSE IF mem >= 48 THEN 12
          ELSE IF mem >= 40 THEN 10 ELSE IF mem >= 24 THEN 8
          ELSE IF mem >= 16 THEN 5 ELSE IF mem >= 8 THEN 3 ELSE 0)
    ELSE 0

PriorityScore(node) ==
    CpuScore(node.cpu_cores) + MemoryScore(node.total_memory_gb)
    + StorageScore(node.fast_storage_gb)
    + NetworkScore(node.network_speed_gbps)
    + GpuScore(node.gpu_count, node.total_gpu_memory_gb)

RecommendedRoleScoreFirst(gpu_count, score) ==
    IF score >= MasterThreshold THEN "master"
    ELSE IF gpu_count > 0 THEN "gpu_worker" ELSE "worker"

RecommendedRoleAboveThreshold(gpu_count, score) ==
    IF gpu_count > 0 THEN "gpu_worker"
    ELSE IF score > MasterThreshold THEN "master" ELSE "worker"

RecommendedRole(gpu_count, score) ==
    IF gpu_count > 0 THEN "gpu_worker"
    ELSE IF score >= MasterThreshold THEN "master" ELSE "worker"

GenerateRecommendations(node) ==
    [node EXCEPT
        !.recommended_role     = RecommendedRole(node.gpu_count,
                                                 PriorityScore(node)),
        !.recommended_priority = PriorityScore(node)]

\* ------------------------------------------------------------------------
\* What a remote host can answer to the probe sequence.  Each profile is
\* one host's hardware as the probes see it; ok = FALSE is a probe whose
\* command or parsing raised.
\* ------------------------------------------------------------------------
Cpu(n)       == [ok |-> TRUE, cores |-> n]
CpuFail      == [ok |-> FALSE, cores |-> 0]
Mem(n)       == [ok |-> TRUE, total |-> n]
MemFail      == [ok |-> FALSE, total |-> 0]
Gpus(ms)     == [ok |-> TRUE, tool |-> TRUE, mems |-> ms]
NoGpuTool    == [ok |-> TRUE, tool |-> FALSE, mems |-> <<>>]
GpuFail      == [ok |-> FALSE, tool |-> TRUE, mems |-> <<>>]
Net(n)       == [ok |-> TRUE, speed |-> n]
NetFail      == [ok |-> FALSE, speed |-> 0]
Disks(ds)    == [ok |-> TRUE, devices |-> ds]
DisksFail    == [ok |-> FALSE, devices |-> <<>>]
Hdd(n)       == [size |-> n, type |-> "disk", nvme |-> FALSE, rota |-> "1"]
Ssd(n)       == [size |-> n, type |-> "disk", nvme |-> FALSE, rota |-> "0"]
Nvme(n)      == [size |-> n, type |-> "disk", nvme |-> TRUE,  rota |-> "0"]
Rom(n)       == [size |-> n, type |-> "rom",  nvme |-> FALSE, rota |-> "1"]

Profile(c, m, d, g, n) ==
    [cpu |-> c, mem |-> m, storage |-> d, gpu |-> g, net |-> n]

HostProfiles ==
    { Profile(Cpu(32), Mem(64), Disks(<<Hdd(1000)>>), NoGpuTool, Net(1)),
      Profile(Cpu(16), Mem(64), Disks(<<Ssd(40), Rom(1)>>), NoGpuTool, Net(1)),
      Profile(Cpu(16), Mem(32), DisksFail, GpuFail, NetFail),
      Profile(Cpu(4),  Mem(8),  Disks(<<Hdd(200)>>), NoGpuTool, Net(1)),
      Profile(CpuFail, MemFail, DisksFail, GpuFail, NetFail),
      Profile(Cpu(8),  Mem(32), Disks(<<Nvme(500)>>), Gpus(<<48, 48>>), Net(10)),
      Profile(CpuFail, Mem(8),  DisksFail, Gpus(<<24>>), NetFail),
      Profile(Cpu(8),  MemFail, DisksFail, Gpus(<<8>>), NetFail) }

\* The probe sequence of _discover_node_capabilities, in its order.  The
\* OS, container-runtime and kubectl probes write no field the scorer or
\* the planner reads.
RunProbes(node, p) ==
    DiscoverNetworkInfo(
        DiscoverGpuInfo(
            DiscoverStorageInfo(
                DiscoverMemoryInfo(
                    DiscoverCpuInfo(node, p.cpu), p.mem), p.storage), p.gpu),
        p.net)

\* ------------------------------------------------------------------------
\* discover_nodes
\* ------------------------------------------------------------------------
NodeDescriptors(n) == [i \in 1..n |-> [hostname |-> i]]

RECURSIVE NewNodesPrepended(_)
NewNodesPrepended(descs) ==
    IF descs = <<>> THEN <<>>
    ELSE NewNodesPrepended(Tail(descs))
         \o <<NodeCapabilities(Head(descs).hostname)>>

\* self.nodes = [NodeCapabilities(...) for each descriptor], by append
RECURSIVE NewNodes(_)
NewNodes(descs) ==
    IF descs = <<>> THEN <<>>
    ELSE <<NodeCapabilities(Head(descs).hostname)>> \o NewNodes(Tail(descs))

MaxWorkersUncapped(n) == n

MaxWorkersSingle(n) == Min(n, 1)

MaxWorkers(n) == Min(n, PoolCap)

\* tasks holding a pool thread; a task blocked in a read holds its thread
Executing ==
    {i \in DOMAIN task : task[i] \in {"running", "connected", "probed", "hung"}}

Stalled == {i \in DOMAIN task : task[i] = "hung"}

\* SpecProbe bookkeeping when no probe-level run is modelled
NoProbe == [probe |-> 0, cmd |-> 0]
\* AgentManager.__init__: no task queued, running or completed.  at is the
\* position of each submit_task call, cancelled the ids cancel_task
\* cancelled (history).
NoTasks ==
    [status |-> <<>>, at |-> <<>>, task_queue |-> <<>>, running_tasks |-> {},
     completed_tasks |-> <<>>, cancelled |-> {}]

NoArg == ""

NoRender ==
    [kind |-> "none", username |-> NoArg, key |-> NoArg, calls |-> 0,
     output |-> <<>>, args |-> [username |-> NoArg, key |-> NoArg]]

NoConns ==
    [open |-> 0, opened |-> 0, attempts |-> 0,
     failed |-> FALSE, reattempted |-> FALSE]

StoreNodeEverywhere(ns, i, node) == [j \in DOMAIN ns |-> node]

\* the task holds a reference to its own node object only
StoreNode(ns, i, node) == [ns EXCEPT ![i] = node]

Init ==
    /\ phase = "constructed"
    /\ node_list = <<>>
    /\ nodes = <<>>
    /\ task = <<>>
    /\ plan_status = "none"
    /\ deployment_plan = <<>>
    /\ pc = NoProbe
    /\ conns = NoConns
    /\ ran = <<>>
    /\ rendered = NoRender
    /\ builds = 0
    /\ manager = NoTasks

\* discover_nodes(node_list) with at least one host: the node objects are
\* created and one future per node is submitted to the pool.
DiscoverNodesSubmit ==
    /\ phase = "constructed"
    /\ \E n \in 1..MaxHosts :
          /\ node_list' = NodeDescriptors(n)
          /\ nodes' = NewNodes(NodeDescriptors(n))
          /\ task' = [i \in 1..n |-> "pending"]
    /\ phase' = "discovering"
    /\ UNCHANGED <<plan_status, deployment_plan, probe_vars, builds>>

\* discover_nodes([]): ThreadPoolExecutor(max_workers=0) raises ValueError
\* after self.nodes was reset.
DiscoverNodesNoHosts ==
    /\ phase = "constructed"
    /\ MaxWorkers(0) <= 0
    /\ node_list' = <<>>
    /\ nodes' = NewNodes(<<>>)
    /\ task' = <<>>
    /\ phase' = "discover_error"
    /\ UNCHANGED <<plan_status, deployment_plan, probe_vars, builds>>

\* A pool thread takes the next submitted task: the executor's work queue
\* is first-in first-out, and a thread is free when fewer than max_workers
\* tasks are executing.
TaskStart(i) ==
    /\ phase = "discovering"
    /\ task[i] = "pending"
    /\ \A j \in 1..(i - 1) : task[j] # "pending"
    /\ Cardinality(Executing) < MaxWorkers(Len(nodes))
    /\ task' = [task EXCEPT ![i] = "running"]
    /\ UNCHANGED <<phase, node_list, nodes, plan_status, deployment_plan, probe_vars, builds>>

\* _test_ssh_connection: True, or False and the task raises
\* Exception("SSH connection failed"), leaving the node untouched.
TestSshConnection(i) ==
    /\ phase = "discovering"
    /\ task[i] = "running"
    /\ \E connected \in BOOLEAN :
          task' = [task EXCEPT ![i] = IF connected THEN "connected"
                                                   ELSE "raised"]
    /\ UNCHANGED <<phase, node_list, nodes, plan_status, deployment_plan, probe_vars, builds>>

\* The eight probes, each catching its own failure.
DiscoverFacets(i) ==
    /\ phase = "discovering"
    /\ task[i] = "connected"
    /\ \E p \in HostProfiles :
          nodes' = StoreNode(nodes, i, RunProbes(nodes[i], p))
    /\ task' = [task EXCEPT ![i] = "probed"]
    /\ UNCHANGED <<phase, node_list, plan_status, deployment_plan, probe_vars, builds>>

\* _generate_recommendations(node), then the task returns.
ScoreNode(i) ==
    /\ phase = "discovering"
    /\ task[i] = "probed"
    /\ nodes' = StoreNode(nodes, i, GenerateRecommendations(nodes[i]))
    /\ task' = [task EXCEPT ![i] = "finished"]
    /\ UNCHANGED <<phase, node_list, plan_status, deployment_plan, probe_vars, builds>>

\* exec_command is called without a timeout and stdout.read() blocks
\* until the remote side answers: a host that accepted the connection
\* and never answers keeps the task, and its pool thread, for ever.
CommandHangs(i) ==
    /\ phase = "discovering"
    /\ task[i] = "connected"
    /\ Cardinality(Stalled) < MaxStalled
    /\ task' = [task EXCEPT ![i] = "hung"]
    /\ UNCHANGED <<phase, node_list, nodes, plan_status, deployment_plan,
                   probe_vars, builds>>

\* as_completed has yielded every future; future.result() re-raised the
\* exception of each failed task and the loop caught it; self.nodes is
\* returned.
DiscoverNodesReturn ==
    /\ phase = "discovering"
    /\ \A i \in DOMAIN task : task[i] \in {"finished", "raised"}
    /\ phase' = "discovered"
    /\ UNCHANGED <<node_list, nodes, task, plan_status, deployment_plan, probe_vars, builds>>

\* ------------------------------------------------------------------------
\* build_deployment_plan
\* ------------------------------------------------------------------------
\* sorted(self.nodes, key=recommended_priority, reverse=True): a stable
\* sort, so nodes of equal priority keep their order in self.nodes.  The
\* result is the sequence of positions in self.nodes.
RECURSIVE InsertByPriority(_, _, _)
InsertByPriority(ns, s, i) ==
    IF s = <<>> THEN <<i>>
    ELSE IF ns[Head(s)].recommended_priority >= ns[i].recommended_priority
         THEN <<Head(s)>> \o InsertByPriority(ns, Tail(s), i)
         ELSE <<i>> \o s

RECURSIVE SortPrefix(_, _)
SortPrefix(ns, k) ==
    IF k = 0 THEN <<>> ELSE InsertByPriority(ns, SortPrefix(ns, k - 1), k)

RECURSIVE Reversed(_)
Reversed(s) == IF s = <<>> THEN <<>> ELSE Reversed(Tail(s)) \o <<Head(s)>>

RECURSIVE InsertAscending(_, _, _)
InsertAscending(ns, s, i) ==
    IF s = <<>> THEN <<i>>
    ELSE IF ns[Head(s)].recommended_priority <= ns[i].recommended_priority
         THEN <<Head(s)>> \o InsertAscending(ns, Tail(s), i)
         ELSE <<i>> \o s

RECURSIVE SortAscendingPrefix(_, _)
SortAscendingPrefix(ns, k) ==
    IF k = 0 THEN <<>>
    ELSE InsertAscending(ns, SortAscendingPrefix(ns, k - 1), k)

\* an ascending stable sort turned round: equal priorities come out in
\* reverse input order
SortedNodesTiesReversed(ns) == Reversed(SortAscendingPrefix(ns, Len(ns)))

SortedNodes(ns) == SortPrefix(ns, Len(ns))

\* for node in sorted_nodes: if node.recommended_role == "master": break
\* (0 when the loop ends without a match: master_node stays None)
RECURSIVE FirstMaster(_, _)
FirstMaster(ns, s) ==
    IF s = <<>> THEN 0
    ELSE IF ns[Head(s)].recommended_role = "master" THEN Head(s)
         ELSE FirstMaster(ns, Tail(s))

\* master_node: the first master in sorted order, else sorted_nodes[0]
MasterNode(ns) ==
    LET s == SortedNodes(ns)
        m == FirstMaster(ns, s)
    IN  IF m # 0 THEN m ELSE s[1]

FallbackRoleKept(ns) == ns

FallbackRoleLast(ns) ==
    LET s == SortedNodes(ns)
    IN  IF FirstMaster(ns, s) = 0
        THEN [ns EXCEPT ![s[Len(s)]].recommended_role = "master"]
        ELSE ns

\* if not master_node: master_node.recommended_role = "master"
\* (the node object is the one held by self.nodes)
FallbackRole(ns) ==
    IF FirstMaster(ns, SortedNodes(ns)) = 0
    THEN [ns EXCEPT ![MasterNode(ns)].recommended_role = "master"]
    ELSE ns

\* gpu_workers, read after the fallback wrote the role (ns is self.nodes
\* at that point)
GpuWorkers(ns) ==
    LET IsGpuWorker(i) == ns[i].recommended_role = "gpu_worker"
    IN  SelectSeq(SortedNodes(ns), IsGpuWorker)

\* regular_workers; node != master_node is the dataclass's field-wise
\* comparison
RegularWorkers(ns, m) ==
    LET IsWorker(i) == ns[i].recommended_role = "worker" /\ ns[i] # ns[m]
    IN  SelectSeq(SortedNodes(ns), IsWorker)

RECURSIVE SumField(_, _)
SumField(ns, f) ==
    IF ns = <<>> THEN 0 ELSE Head(ns)[f] + SumField(Tail(ns), f)

Hostnames(ns, s) == [k \in 1..Len(s) |-> ns[s[k]].hostname]

Selected(ns, m, gpu, workers) ==
    [k \in 1..(1 + Len(gpu) + Len(workers)) |->
        IF k = 1 THEN ns[m]
        ELSE IF k <= 1 + Len(gpu) THEN ns[gpu[k - 1]]
        ELSE ns[workers[k - 1 - Len(gpu)]]]

\* the totals taken over the three selected partitions only
SummaryOfSelected(ns, m, gpu, workers) ==
    LET sel == Selected(ns, m, gpu, workers)
    IN  [total_nodes         |-> Len(sel),
         master_nodes        |-> 1,
         gpu_worker_nodes    |-> Len(gpu),
         worker_nodes        |-> Len(workers),
         total_gpus          |-> SumField(sel, "gpu_count"),
         total_gpu_memory_gb |-> SumField(sel, "total_gpu_memory_gb"),
         total_cpu_cores     |-> SumField(sel, "cpu_cores"),
         total_memory_gb     |-> SumField(sel, "total_memory_gb"),
         total_storage_gb    |-> SumField(sel, "total_storage_gb")]

\* 'summary': counts of the partitions, sums over self.nodes
Summary(ns, m, gpu, workers) ==
    [total_nodes         |-> Len(ns),
     master_nodes        |-> 1,
     gpu_worker_nodes    |-> Len(gpu),
     worker_nodes        |-> Len(workers),
     total_gpus          |-> SumField(ns, "gpu_count"),
     total_gpu_memory_gb |-> SumField(ns, "total_gpu_memory_gb"),
     total_cpu_cores     |-> SumField(ns, "cpu_cores"),
     total_memory_gb     |-> SumField(ns, "total_memory_gb"),
     total_storage_gb    |-> SumField(ns, "total_storage_gb")]

\* self.deployment_plan as built from self.nodes after the fallback
DeploymentPlan(ns, m) ==
    [master_node      |-> [hostname |-> ns[m].hostname],
     gpu_worker_nodes |-> Hostnames(ns, GpuWorkers(ns)),
     worker_nodes     |-> Hostnames(ns, RegularWorkers(ns, m)),
     summary          |-> Summary(ns, m, GpuWorkers(ns),
                                  RegularWorkers(ns, m))]

\* build_deployment_plan(): with no node, sorted_nodes[0] raises
\* IndexError and self.deployment_plan is not assigned.
BuildDeploymentPlan ==
    /\ phase \in {"constructed", "discovered", "discover_error"}
    /\ IF nodes = <<>>
       THEN /\ plan_status' = "error"
            /\ UNCHANGED <<nodes, deployment_plan>>
       ELSE /\ nodes' = FallbackRole(nodes)
            /\ deployment_plan' = DeploymentPlan(nodes', MasterNode(nodes))
            /\ plan_status' = "ok"
    /\ builds' = Min(builds + 1, MaxBuilds)
    /\ UNCHANGED <<phase, node_list, task, probe_vars>>

Next ==
    \/ DiscoverNodesSubmit
    \/ DiscoverNodesNoHosts
    \/ \E i \in DOMAIN task : TaskStart(i)
    \/ \E i \in DOMAIN task : TestSshConnection(i)
    \/ \E i \in DOMAIN task : DiscoverFacets(i)
    \/ \E i \in DOMAIN task : ScoreNode(i)
    \/ \E i \in DOMAIN task : CommandHangs(i)
    \/ DiscoverNodesReturn
    \/ BuildDeploymentPlan

Spec == Init /\ [][Next]_vars

\* ------------------------------------------------------------------------
\* SpecScore: one host has answered its probes with values on and around
\* every tier boundary; the only step is the scoring of that node.
\* ------------------------------------------------------------------------
CoreValues    == {0, 3, 4, 7, 8, 15, 16, 32}
MemoryValues  == {0, 15, 16, 31, 32, 63, 64}
FastValues    == {0, 49, 50, 99, 100, 499, 500}
SpeedValues   == {0, 1, 9, 10, 24, 25}
GpuMemValues  == {0, 7, 8, 15, 16, 23, 24, 39, 40, 47, 48, 79, 80}

ProbedNode(c, m, f, s, g, gm) ==
    [NodeCapabilities(1) EXCEPT
        !.cpu_cores = c, !.total_memory_gb = m,
        !.total_storage_gb = f, !.fast_storage_gb = f,
        !.network_speed_gbps = s,
        !.gpu_count = g, !.total_gpu_memory_gb = gm]

InitScore ==
    /\ phase = "discovering"
    /\ node_list = NodeDescriptors(1)
    /\ task = <<"probed">>
    /\ \E c \in CoreValues, m \in MemoryValues, f \in FastValues,
          s \in SpeedValues, g \in {0, 1}, gm \in GpuMemValues :
          /\ g = 0 => gm = 0
          /\ nodes = <<ProbedNode(c, m, f, s, g, gm)>>
    /\ plan_status = "none"
    /\ deployment_plan = <<>>
    /\ pc = NoProbe
    /\ conns = NoConns
    /\ ran = <<>>
    /\ rendered = NoRender
    /\ builds = 0
    /\ manager = NoTasks

NextScore == \E i \in DOMAIN task : ScoreNode(i)

SpecScore == InitScore /\ [][NextScore]_vars

\* ------------------------------------------------------------------------
\* SpecPool: discover_nodes has submitted its tasks, for a fleet smaller
\* than the pool cap and for one larger than it.  The fleet is fixed:
\* hosts at odd positions accept connections and then refuse every
\* probe's own connection, hosts at even positions refuse the connection
\* test.  A task's body is one step here: the task raises, or the node is
\* scored; or the host connects and a command never answers.
\* ------------------------------------------------------------------------
MaxPoolHosts == 11

PoolProfile == Profile(CpuFail, MemFail, DisksFail, GpuFail, NetFail)

PoolReachable(i) == i % 2 = 1

InitPool ==
    /\ phase = "discovering"
    /\ \E n \in {2, MaxPoolHosts} :
          /\ node_list = NodeDescriptors(n)
          /\ nodes = NewNodes(NodeDescriptors(n))
          /\ task = [i \in 1..n |-> "pending"]
    /\ plan_status = "none"
    /\ deployment_plan = <<>>
    /\ pc = NoProbe
    /\ conns = NoConns
    /\ ran = <<>>
    /\ rendered = NoRender
    /\ builds = 0
    /\ manager = NoTasks

\* _discover_node_capabilities(node), start to end
DiscoverNodeCapabilities(i) ==
    /\ phase = "discovering"
    /\ task[i] = "running"
    /\ IF PoolReachable(i)
       THEN /\ nodes' = StoreNode(nodes, i,
                   GenerateRecommendations(RunProbes(nodes[i], PoolProfile)))
            /\ task' = [task EXCEPT ![i] = "finished"]
       ELSE /\ task' = [task EXCEPT ![i] = "raised"]
            /\ UNCHANGED nodes
    /\ UNCHANGED <<phase, node_list, plan_status, deployment_plan, probe_vars, builds>>

\* the host connects and a command of some probe never answers
TaskStalls(i) ==
    /\ phase = "discovering"
    /\ task[i] = "running"
    /\ PoolReachable(i)
    /\ Cardinality(Stalled) < MaxStalled
    /\ task' = [task EXCEPT ![i] = "hung"]
    /\ UNCHANGED <<phase, node_list, nodes, plan_status, deployment_plan,
                   probe_vars, builds>>

NextPool ==
    \/ \E i \in DOMAIN task : TaskStart(i)
    \/ \E i \in DOMAIN task : DiscoverNodeCapabilities(i)
    \/ \E i \in DOMAIN task : TaskStalls(i)
    \/ DiscoverNodesReturn

SpecPool == InitPool /\ [][NextPool]_vars

\* the operating system schedules every runnable pool thread and the
\* coordinator thread
SpecPoolFair ==
    /\ SpecPool
    /\ WF_vars(\E i \in DOMAIN task : TaskStart(i))
    /\ WF_vars(\E i \in DOMAIN task : DiscoverNodeCapabilities(i))
    /\ WF_vars(DiscoverNodesReturn)

\* ------------------------------------------------------------------------
\* SpecProbe: one host's task, one remote command per step
\* ------------------------------------------------------------------------
\* The probes in the order _discover_node_capabilities calls them.
ProbeNames ==
    <<"cpu", "memory", "storage", "gpu", "network", "os",
      "container_runtime", "kubernetes">>

\* What one exec_command and the parsing of its output come to: an
\* exception (channel error, int()/float()/json.loads() on bad output), an
\* empty output, a number, or a list of entries.
Raise       == [kind |-> "raise", n |-> 0, lines |-> <<>>]
Empty       == [kind |-> "empty", n |-> 0, lines |-> <<>>]
Val(n)      == [kind |-> "ok", n |-> n, lines |-> <<>>]
Lines(ls)   == [kind |-> "ok", n |-> 0, lines |-> ls]

\* An nvidia-smi line whose memory column float() rejects.
BadLine == -1

\* What a step of a probe does next: run its next command, close its
\* connection (end of the try body), or leave through its except clause.
Continue(node) == [node |-> node, next |-> "continue"]
Close(node)    == [node |-> node, next |-> "close"]
Caught(node)   == [node |-> node, next |-> "raise"]

\* _discover_cpu_info: nproc, model name, cpu MHz.
CpuStep(node, cmd, a) ==
    IF a.kind = "raise" THEN Caught(node)
    ELSE IF cmd = 1 THEN Continue([node EXCEPT !.cpu_cores = a.n])
    ELSE IF cmd = 2 THEN Continue([node EXCEPT !.cpu_model = "model"])
    ELSE IF a.kind = "empty" THEN Close(node)
    ELSE Close([node EXCEPT !.cpu_frequency = a.n])

\* _discover_memory_info: total, then available.
MemoryStep(node, cmd, a) ==
    IF a.kind = "raise" THEN Caught(node)
    ELSE IF cmd = 1 THEN Continue([node EXCEPT !.total_memory_gb = a.n])
    ELSE Close([node EXCEPT !.available_memory_gb = a.n])

\* The entries _discover_storage_info appends to storage_devices: devices
\* of type disk only, relabelled nvme or ssd when fast.
RECURSIVE StorageDevices(_)
StorageDevices(devs) ==
    IF devs = <<>> THEN <<>>
    ELSE LET d == devs[1]
             label == IF d.nvme THEN "nvme"
                      ELSE IF d.rota = "0" THEN "ssd" ELSE "disk"
         IN  (IF d.type = "disk"
              THEN <<[size_gb |-> d.size, type |-> label]>>
              ELSE <<>>) \o StorageDevices(Tail(devs))

\* _discover_storage_info: one lsblk command.
StorageStep(node, cmd, a) ==
    IF a.kind = "raise" THEN Caught(node)
    ELSE IF a.kind = "empty" THEN Close(node)
    ELSE Close([node EXCEPT
                  !.storage_devices  = @ \o StorageDevices(a.lines),
                  !.total_storage_gb = TotalStorage(a.lines),
                  !.fast_storage_gb  = FastStorage(a.lines)])

\* The nvidia-smi lines before the first one that fails to parse.
RECURSIVE ParsedLines(_)
ParsedLines(ls) ==
    IF ls = <<>> \/ ls[1] = BadLine THEN <<>>
    ELSE <<ls[1]>> \o ParsedLines(Tail(ls))

GpuDevices(ls) == [k \in DOMAIN ls |-> [index |-> k - 1, memory_gb |-> ls[k]]]

\* _discover_gpu_info: which nvidia-smi, then the query.  Each parsed line
\* is appended to gpu_devices at once; the totals are assigned after the
\* loop.
GpuStep(node, cmd, a) ==
    IF a.kind = "raise" THEN Caught(node)
    ELSE IF a.kind = "empty" THEN Close(node)
    ELSE IF cmd = 1 THEN Continue(node)
    ELSE LET parsed == ParsedLines(a.lines)
             appended == [node EXCEPT
                            !.gpu_devices = @ \o GpuDevices(parsed)]
         IN  IF Len(parsed) < Len(a.lines) THEN Caught(appended)
             ELSE Close([appended EXCEPT
                           !.total_gpu_memory_gb = SumSeq(parsed),
                           !.gpu_count = Len(parsed)])

\* _discover_network_info: ip addr show, then the speed of the interface,
\* for a host with one non-loopback interface that has an address.
NetworkStep(node, cmd, a) ==
    IF a.kind = "raise" THEN Caught(node)
    ELSE IF cmd = 1
         THEN IF a.kind = "empty" THEN Close(node) ELSE Continue(node)
    ELSE Close([node EXCEPT
                  !.network_interfaces = Append(@, [speed_gbps |-> a.n]),
                  !.primary_interface =
                      IF @ = "" THEN "eth0" ELSE @,
                  !.network_speed_gbps =
                      IF node.primary_interface = "" THEN a.n ELSE @])

\* _discover_os_info: os-release, then uname -r.
OsStep(node, cmd, a) ==
    IF a.kind = "raise" THEN Caught(node)
    ELSE IF cmd = 1
         THEN Continue([node EXCEPT !.os_name = "name",
                                    !.os_version = "version"])
    ELSE Close([node EXCEPT !.kernel_version = "kernel"])

\* _discover_container_runtime: which docker, which containerd.
ContainerRuntimeStep(node, cmd, a) ==
    IF a.kind = "raise" THEN Caught(node)
    ELSE IF cmd = 1
         THEN Continue([node EXCEPT !.docker_installed = (a.kind = "ok")])
    ELSE Close([node EXCEPT !.containerd_installed = (a.kind = "ok")])

\* _discover_kubernetes_info: which kubectl.
KubernetesStep(node, cmd, a) ==
    IF a.kind = "raise" THEN Caught(node)
    ELSE Close([node EXCEPT !.kubernetes_installed = (a.kind = "ok")])

ProbeStep(probe, cmd, node, a) ==
    CASE probe = 1 -> CpuStep(node, cmd, a)
      [] probe = 2 -> MemoryStep(node, cmd, a)
      [] probe = 3 -> StorageStep(node, cmd, a)
      [] probe = 4 -> GpuStep(node, cmd, a)
      [] probe = 5 -> NetworkStep(node, cmd, a)
      [] probe = 6 -> OsStep(node, cmd, a)
      [] probe = 7 -> ContainerRuntimeStep(node, cmd, a)
      [] probe = 8 -> KubernetesStep(node, cmd, a)

\* The answers the remote host may give to command cmd of a probe.
Answers(probe, cmd) ==
    CASE probe = 1 /\ cmd = 1 -> {Raise, Val(8)}
      [] probe = 1 /\ cmd = 2 -> {Raise, Val(0)}
      [] probe = 1 /\ cmd = 3 -> {Raise, Empty, Val(3)}
      [] probe = 2 /\ cmd = 1 -> {Raise, Val(32)}
      [] probe = 2 /\ cmd = 2 -> {Raise, Val(16)}
      [] probe = 3 -> {Raise, Empty, Lines(<<Ssd(100), Rom(1)>>)}
      [] probe = 4 /\ cmd = 1 -> {Raise, Empty, Val(0)}
      [] probe = 4 /\ cmd = 2 ->
             {Raise, Empty, Lines(<<24>>), Lines(<<24, BadLine>>)}
      [] probe = 5 /\ cmd = 1 -> {Raise, Empty, Val(0)}
      [] probe = 5 /\ cmd = 2 -> {Raise, Val(10)}
      [] probe = 6 -> {Raise, Val(0)}
      [] probe = 7 /\ cmd = 1 -> {Raise, Val(0)}
      [] probe = 7 /\ cmd = 2 -> {Raise, Empty, Val(0)}
      [] probe = 8 -> {Raise, Empty, Val(0)}

\* Positions of the task: 0 before the connection test, 1..8 in a probe,
\* 9 before scoring, 10 after it; Propagated is an exception leaving
\* _discover_node_capabilities.
ScorePos   == 9
DonePos    == 10
Propagated == 11

\* One ssh.connect(): counted, and opened when it succeeded.
Attempt(c, ok) ==
    [c EXCEPT !.attempts = @ + 1,
              !.opened = IF ok THEN @ + 1 ELSE @,
              !.open = IF ok THEN @ + 1 ELSE @,
              !.failed = @ \/ ~ok,
              !.reattempted = @ \/ c.failed]

\* ssh.close()
Closed(c) == [c EXCEPT !.open = @ - 1]

\* A probe's `except Exception` clause logs a warning and returns: the
\* caller goes on to the next probe.
AfterExceptionPropagates(p) == [probe |-> Propagated, cmd |-> 0]
AfterException(p) == [probe |-> p.probe + 1, cmd |-> 0]

\* The last entry of ran marked as failed.
MarkFailed(r) == [r EXCEPT ![Len(r)].failed = TRUE]

TaskAt(p) == IF p.probe = Propagated THEN "raised" ELSE "connected"

InitProbe ==
    /\ phase = "discovering"
    /\ node_list = NodeDescriptors(1)
    /\ nodes = NewNodes(NodeDescriptors(1))
    /\ task = <<"running">>
    /\ plan_status = "none"
    /\ deployment_plan = <<>>
    /\ pc = NoProbe
    /\ conns = NoConns
    /\ ran = <<>>
    /\ rendered = NoRender
    /\ builds = 0
    /\ manager = NoTasks

\* _test_ssh_connection: connect and close at once; on failure
\* _discover_node_capabilities raises.
ProbeTestSsh ==
    /\ phase = "discovering"
    /\ task[1] = "running"
    /\ \E ok \in BOOLEAN :
          /\ conns' = IF ok THEN Closed(Attempt(conns, TRUE))
                      ELSE Attempt(conns, FALSE)
          /\ task' = [task EXCEPT ![1] = IF ok THEN "connected" ELSE "raised"]
          /\ pc' = IF ok THEN [probe |-> 1, cmd |-> 0] ELSE pc
    /\ UNCHANGED <<phase, node_list, nodes, plan_status, deployment_plan, ran,
                   rendered, builds, manager>>

\* A probe is entered and calls _get_ssh_connection, inside its try.
ProbeConnect ==
    /\ phase = "discovering"
    /\ task[1] = "connected"
    /\ pc.probe \in 1..8
    /\ pc.cmd = 0
    /\ \E ok \in BOOLEAN :
          /\ conns' = Attempt(conns, ok)
          /\ ran' = Append(ran, [probe |-> ProbeNames[pc.probe],
                                 failed |-> ~ok])
          /\ pc' = IF ok THEN [pc EXCEPT !.cmd = 1] ELSE AfterException(pc)
    /\ task' = [task EXCEPT ![1] = TaskAt(pc')]
    /\ UNCHANGED <<phase, node_list, nodes, plan_status, deployment_plan,
                   rendered, builds, manager>>

\* One exec_command of the current probe and what the probe does with its
\* output.  A probe that leaves through its except clause never calls
\* ssh.close(): the connection stays open until the client object is
\* collected, which may or may not have happened by the next step.
ProbeCommand ==
    /\ phase = "discovering"
    /\ task[1] = "connected"
    /\ pc.probe \in 1..8
    /\ pc.cmd >= 1
    /\ \E a \in Answers(pc.probe, pc.cmd) :
          LET r == ProbeStep(pc.probe, pc.cmd, nodes[1], a)
          IN  /\ nodes' = StoreNode(nodes, 1, r.node)
              /\ CASE r.next = "continue" ->
                        /\ pc' = [pc EXCEPT !.cmd = @ + 1]
                        /\ UNCHANGED <<conns, ran>>
                   [] r.next = "close" ->
                        /\ pc' = [probe |-> pc.probe + 1, cmd |-> 0]
                        /\ conns' = Closed(conns)
                        /\ UNCHANGED ran
                   [] r.next = "raise" ->
                        /\ pc' = AfterException(pc)
                        /\ ran' = MarkFailed(ran)
                        /\ \E collected \in BOOLEAN :
                              conns' = IF collected THEN Closed(conns)
                                       ELSE conns
    /\ task' = [task EXCEPT ![1] = TaskAt(pc')]
    /\ UNCHANGED <<phase, node_list, plan_status, deployment_plan, rendered,
                   builds, manager>>

\* _generate_recommendations(node) after the last probe; the task returns.
ProbeScore ==
    /\ phase = "discovering"
    /\ task[1] = "connected"
    /\ pc.probe = ScorePos
    /\ nodes' = StoreNode(nodes, 1, GenerateRecommendations(nodes[1]))
    /\ task' = [task EXCEPT ![1] = "finished"]
    /\ pc' = [probe |-> DonePos, cmd |-> 0]
    /\ UNCHANGED <<phase, node_list, plan_status, deployment_plan, conns, ran,
                   rendered, builds, manager>>

NextProbe ==
    \/ ProbeTestSsh
    \/ ProbeConnect
    \/ ProbeCommand
    \/ ProbeScore
    \/ DiscoverNodesReturn

SpecProbe == InitProbe /\ [][NextProbe]_vars

\* Every command answers and every runnable step is eventually taken.
SpecProbeFair == SpecProbe /\ WF_vars(NextProbe)

\* ------------------------------------------------------------------------
\* SpecRender: generate_inventory, generate_kubespray_config and
\* generate_rag_config, called in any order and any number of times on
\* the plan build_deployment_plan made of a discovered fleet.
\* ------------------------------------------------------------------------
MaxRenderHosts == 10
MaxRenders == 2

Usernames == {"ubuntu", "admin"}

\* total_nodes >= 10 in generate_kubespray_config
LargeCluster == 10

Max(a, b) == IF a >= b THEN a ELSE b

\* Key paths a caller passes on the command line (absolute), and the
\* default of PreflightChecker.__init__.
KeyPaths == {"/keys/deploy", "/keys/backup"}
DefaultKeyArg == "~/.ssh/id_rsa"

\* os.path.expanduser in __init__: a leading ~ becomes the home directory,
\* any other path is kept.
ExpandUser(path) ==
    IF path = DefaultKeyArg THEN "/home/user/.ssh/id_rsa" ELSE path

\* One entry of the inventory's worker map.  ansible_host is the node's
\* address, which goes with its hostname.
HostEntryUntagged(hostname, username, key, gpu) ==
    [hostname |-> hostname, ansible_host |-> hostname,
     ansible_user |-> username, ansible_ssh_private_key_file |-> key,
     gpu_enabled |-> FALSE]
HostEntry(hostname, username, key, gpu) ==
    [hostname |-> hostname, ansible_host |-> hostname,
     ansible_user |-> username, ansible_ssh_private_key_file |-> key,
     gpu_enabled |-> gpu]

\* generate_inventory(username) of a checker whose ssh_key_path is key:
\* the control-plane host, then the GPU workers and the workers in the
\* order the plan lists them (hostnames are distinct, so no entry of the
\* dict is overwritten), dumped with sort_keys=False.
Inventory(plan, username, key) ==
    [kube_control_plane |->
         <<[hostname |-> plan.master_node.hostname,
            ansible_host |-> plan.master_node.hostname,
            ansible_user |-> username,
            ansible_ssh_private_key_file |-> key]>>,
     kube_node |->
         [k \in DOMAIN plan.gpu_worker_nodes |->
             HostEntry(plan.gpu_worker_nodes[k], username, key, TRUE)]
         \o [k \in DOMAIN plan.worker_nodes |->
             HostEntry(plan.worker_nodes[k], username, key, FALSE)],
     k8s_cluster_vars |->
         [ansible_user |-> username, ansible_ssh_private_key_file |-> key]]

\* generate_kubespray_config(plan): the entries that depend on the plan.
KubesprayConfigByGpuWorkers(plan) ==
    [nvidia_gpu_enabled    |-> Len(plan.gpu_worker_nodes) > 0,
     nvidia_driver_enabled |-> Len(plan.gpu_worker_nodes) > 0,
     etcd_deployment_type  |-> "host",
     node_cidr_mask_size   |->
         IF plan.summary.total_nodes >= LargeCluster THEN "24" ELSE ""]
KubesprayConfig(plan) ==
    [nvidia_gpu_enabled    |-> plan.summary.total_gpus > 0,
     nvidia_driver_enabled |-> plan.summary.total_gpus > 0,
     etcd_deployment_type  |-> "host",
     node_cidr_mask_size   |->
         IF plan.summary.total_nodes >= LargeCluster THEN "24" ELSE ""]

\* generate_rag_config(plan): the entries that depend on the plan.
RagConfig(plan) ==
    [replicas    |-> Max(1, Len(plan.gpu_worker_nodes)),
     gpu_request |-> IF plan.summary.total_gpus > 0 THEN "1" ELSE "0",
     milvus_gpu_enabled |-> plan.summary.total_gpus > 0]

\* The renderers only read the plan.
PlanAfterRenderConsumed(plan) ==
    [plan EXCEPT !.gpu_worker_nodes = <<>>, !.worker_nodes = <<>>]
PlanAfterRender(plan) == plan

\* A node as discovery can leave it: failed at the connection test, or
\* probed and scored.
DiscoveredNodes(i) ==
    {NodeCapabilities(i)}
    \cup {GenerateRecommendations(RunProbes(NodeCapabilities(i), p)) :
             p \in HostProfiles}

\* discover_nodes and build_deployment_plan have returned.
InitRender ==
    /\ phase = "discovered"
    /\ \E n \in {1, 2, MaxRenderHosts} :
          /\ node_list = NodeDescriptors(n)
          /\ \E a \in DiscoveredNodes(1), b \in DiscoveredNodes(2) :
                LET ns == [i \in 1..n |->
                             IF i = 1 THEN a
                             ELSE IF i = 2 THEN b
                             ELSE NodeCapabilities(i)]
                IN  /\ nodes = FallbackRole(ns)
                    /\ deployment_plan =
                           DeploymentPlan(FallbackRole(ns), MasterNode(ns))
                    /\ task = [i \in 1..n |->
                                 IF ns[i] = NodeCapabilities(i)
                                 THEN "raised" ELSE "finished"]
    /\ plan_status = "ok"
    /\ pc = NoProbe
    /\ conns = NoConns
    /\ ran = <<>>
    /\ rendered = NoRender
    /\ builds = 1
    /\ manager = NoTasks

\* The record of a render call: successive calls of the same renderer
\* with the same username and key path are counted.  args is what the
\* caller passed on the command line.
RenderCall(kind, username, key, output, args) ==
    [kind |-> kind, username |-> username, key |-> key,
     calls |-> IF rendered.kind = kind /\ rendered.username = username
                  /\ rendered.key = key
               THEN Min(rendered.calls + 1, MaxRenders) ELSE 1,
     output |-> output, args |-> args]

NoArgs == [username |-> NoArg, key |-> NoArg]

\* checker.generate_inventory(username) on a checker whose ssh_key_path is
\* key.
GenerateInventory(username, key, args) ==
    /\ plan_status = "ok"
    /\ rendered' = RenderCall("inventory", username, key,
                              Inventory(deployment_plan, username, key), args)
    /\ deployment_plan' = PlanAfterRender(deployment_plan)
    /\ UNCHANGED <<phase, node_list, nodes, task, plan_status, pc, conns, ran,
                   builds, manager>>

\* main, discover: the checker is built with the key path of the command
\* line, and the inventory is rendered for the user 'ubuntu'; the command
\* takes no username.
MainDiscover(key) ==
    GenerateInventory("ubuntu", ExpandUser(key),
                      [username |-> NoArg, key |-> key])

\* main, generate-inventory plan_file username ssh_key_path: the checker
\* is built by PreflightChecker(), with the default key path, and
\* args.ssh_key_path is not read.
MainGenerateInventory(username, key) ==
    GenerateInventory(username, ExpandUser(DefaultKeyArg),
                      [username |-> username, key |-> key])

GenerateKubesprayConfig ==
    /\ plan_status = "ok"
    /\ rendered' = RenderCall("kubespray", NoArg, NoArg,
                              KubesprayConfig(deployment_plan), NoArgs)
    /\ deployment_plan' = PlanAfterRender(deployment_plan)
    /\ UNCHANGED <<phase, node_list, nodes, task, plan_status, pc, conns, ran,
                   builds, manager>>

GenerateRagConfig ==
    /\ plan_status = "ok"
    /\ rendered' = RenderCall("rag", NoArg, NoArg,
                              RagConfig(deployment_plan), NoArgs)
    /\ deployment_plan' = PlanAfterRender(deployment_plan)
    /\ UNCHANGED <<phase, node_list, nodes, task, plan_status, pc, conns, ran,
                   builds, manager>>

NextRender ==
    \/ \E key \in KeyPaths : MainDiscover(key)
    \/ \E username \in Usernames, key \in KeyPaths :
          MainGenerateInventory(username, key)
    \/ GenerateKubesprayConfig
    \/ GenerateRagConfig

SpecRender == InitRender /\ [][NextRender]_vars

\* ------------------------------------------------------------------------
\* SpecAgents: AgentManager.  submit_task is a coroutine that suspends at
\* `await agent.execute_task(task)`; between a suspension and its
\* resumption the event loop may run other submit_task calls and callers
\* of cancel_task.  Code between two awaits runs without interleaving.
\* ------------------------------------------------------------------------
MaxTasks == 3

\* completed_tasks keeps its last 100 entries.
HistoryLimit == 100

checker_vars ==
    <<phase, node_list, nodes, task, plan_status, deployment_plan,
      pc, conns, ran, rendered, builds>>

\* self.completed_tasks[-100:]
LastEntries(s, n) ==
    IF Len(s) > n THEN SubSeq(s, Len(s) - n + 1, Len(s)) ELSE s

\* What agent.execute_task comes to: the status of the result it
\* returns, or failed when it raises.
Outcomes == {"completed", "failed"}

InitAgents ==
    /\ phase = "constructed"
    /\ node_list = <<>>
    /\ nodes = <<>>
    /\ task = <<>>
    /\ plan_status = "none"
    /\ deployment_plan = <<>>
    /\ pc = NoProbe
    /\ conns = NoConns
    /\ ran = <<>>
    /\ rendered = NoRender
    /\ builds = 0
    /\ manager = NoTasks

\* submit_task up to its await: the task dict is created with a fresh id
\* (ids are numbered in the order of the calls), queued, marked running
\* and stored in running_tasks.
SubmitTask ==
    /\ Len(manager.status) < MaxTasks
    /\ LET id == Len(manager.status) + 1
       IN  manager' =
               [manager EXCEPT
                  !.status = Append(@, "running"),
                  !.at = Append(@, "awaiting"),
                  !.task_queue = Append(@, id),
                  !.running_tasks = @ \cup {id}]
    /\ UNCHANGED checker_vars

\* cancel_task(task_id) for a task in running_tasks: the task dict is
\* marked cancelled, appended to completed_tasks and removed from
\* running_tasks.  (For any other id it returns False and changes
\* nothing.)
CancelTask(id) ==
    /\ id \in manager.running_tasks
    /\ manager' =
           [manager EXCEPT
              !.status[id] = "cancelled",
              !.completed_tasks = Append(@, id),
              !.running_tasks = @ \ {id},
              !.cancelled = @ \cup {id}]
    /\ UNCHANGED checker_vars

\* submit_task from the return of execute_task to its end: the status is
\* assigned from the result (or failed in the except clause), and the
\* finally clause pops the id from running_tasks, with a default, and
\* appends the task dict to completed_tasks.
Finish(m, id, outcome) ==
    [m EXCEPT
       !.status[id] = outcome,
       !.at[id] = "done",
       !.running_tasks = @ \ {id},
       !.completed_tasks = LastEntries(Append(@, id), HistoryLimit)]

ExecuteTaskReturns(id) ==
    /\ id \in DOMAIN manager.at
    /\ manager.at[id] = "awaiting"
    /\ \E outcome \in Outcomes : manager' = Finish(manager, id, outcome)
    /\ UNCHANGED checker_vars

NextAgents ==
    \/ SubmitTask
    \/ \E id \in 1..MaxTasks : CancelTask(id)
    \/ \E id \in 1..MaxTasks : ExecuteTaskReturns(id)

SpecAgents == InitAgents /\ [][NextAgents]_vars

\* ------------------------------------------------------------------------
\* Properties
\* ------------------------------------------------------------------------
PlanOk == plan_status = "ok"

Range(s) == {s[k] : k \in DOMAIN s}

InputHosts == {nodes[i].hostname : i \in DOMAIN nodes}

Scored(i) == task[i] = "finished"

\* position in self.nodes of the plan's control-plane node
PlanMaster ==
    CHOOSE i \in DOMAIN nodes :
        nodes[i].hostname = deployment_plan.master_node.hostname

\* C1: after build_deployment_plan the control-plane node, the GPU-worker
\* list and the worker list are pairwise disjoint, without repetition, and
\* together they are exactly the discovered nodes.
C1_PlanPartitionsNodes ==
    PlanOk =>
        LET m == {deployment_plan.master_node.hostname}
            g == Range(deployment_plan.gpu_worker_nodes)
            w == Range(deployment_plan.worker_nodes)
        IN  /\ m \cap g = {} /\ m \cap w = {} /\ g \cap w = {}
            /\ Cardinality(g) = Len(deployment_plan.gpu_worker_nodes)
            /\ Cardinality(w) = Len(deployment_plan.worker_nodes)
            /\ m \cup g \cup w = InputHosts

\* C2: when discover_nodes has returned, self.nodes holds one
\* NodeCapabilities per input host, in input order, whichever tasks raised
\* and in whatever order they ended.
C2_OneResultPerHost ==
    phase = "discovered" =>
        /\ Len(nodes) = Len(node_list)
        /\ \A i \in DOMAIN node_list :
              nodes[i].hostname = node_list[i].hostname

C2_Witness ==
    /\ phase = "discovered"
    /\ Len(node_list) >= 2
    /\ \E i, j \in DOMAIN task :
          i < j /\ task[i] = "raised" /\ task[j] = "finished"

\* C3: in a plan, a host whose connection failed is listed as worker, with
\* role worker, priority score 0 and every facet zero.
C3_FailedHostIsZeroWorker ==
    PlanOk =>
        \A i \in DOMAIN task :
            task[i] = "raised" =>
                /\ nodes[i].hostname \in Range(deployment_plan.worker_nodes)
                /\ nodes[i].recommended_role = "worker"
                /\ nodes[i].recommended_priority = 0
                /\ nodes[i].cpu_cores = 0
                /\ nodes[i].total_memory_gb = 0
                /\ nodes[i].total_storage_gb = 0
                /\ nodes[i].fast_storage_gb = 0
                /\ nodes[i].gpu_count = 0
                /\ nodes[i].total_gpu_memory_gb = 0
                /\ nodes[i].network_speed_gbps = 0

C5_MasterIsBestEligible ==
    [][ ( /\ plan_status # "ok"
          /\ plan_status' = "ok"
          /\ \E i \in DOMAIN nodes : nodes[i].recommended_role = "master" )
        =>
        \E m \in DOMAIN nodes :
            /\ deployment_plan'.master_node.hostname = nodes[m].hostname
            /\ nodes[m].recommended_role = "master"
            /\ \A j \in DOMAIN nodes :
                  nodes[j].recommended_role = "master" =>
                      \/ nodes[j].recommended_priority
                            < nodes[m].recommended_priority
                      \/ /\ nodes[j].recommended_priority
                               = nodes[m].recommended_priority
                         /\ j >= m ]_vars

C5_Witness ==
    /\ PlanOk
    /\ \E j, g \in DOMAIN nodes :
          /\ PlanMaster < j
          /\ nodes[j].recommended_role = "master"
          /\ nodes[j].recommended_priority
                = nodes[PlanMaster].recommended_priority
          /\ nodes[g].recommended_role = "gpu_worker"
          /\ nodes[g].recommended_priority
                > nodes[PlanMaster].recommended_priority

\* C6: a planning step taken while no node has role master selects the node
\* of highest priority score overall, the first in input order among equal
\* scores, and lists it neither as GPU worker nor as worker.
C6_FallbackSelectsTopNode ==
    [][ ( /\ plan_status # "ok"
          /\ plan_status' = "ok"
          /\ \A i \in DOMAIN nodes : nodes[i].recommended_role # "master" )
        =>
        \E m \in DOMAIN nodes :
            /\ deployment_plan'.master_node.hostname = nodes[m].hostname
            /\ \A j \in DOMAIN nodes :
                  \/ nodes[j].recommended_priority
                        < nodes[m].recommended_priority
                  \/ /\ nodes[j].recommended_priority
                           = nodes[m].recommended_priority
                     /\ j >= m
            /\ nodes[m].hostname
                  \notin Range(deployment_plan'.gpu_worker_nodes)
            /\ nodes[m].hostname
                  \notin Range(deployment_plan'.worker_nodes) ]_vars

C6_Witness ==
    /\ PlanOk
    /\ nodes[PlanMaster].gpu_count > 0
    /\ \E j \in DOMAIN nodes :
          /\ PlanMaster < j
          /\ nodes[j].recommended_role = "gpu_worker"
          /\ nodes[j].recommended_priority
                = nodes[PlanMaster].recommended_priority

\* C7: no plan is produced when no node was supplied or when every host's
\* connection failed.
C7_NoPlanWithoutDiscoveredNode ==
    (\A i \in DOMAIN task : task[i] = "raised") => ~PlanOk

RECURSIVE TotalUpTo(_, _)
TotalUpTo(f, k) == IF k = 0 THEN 0 ELSE nodes[k][f] + TotalUpTo(f, k - 1)

\* C8: every aggregate of the plan's summary is the count or the sum over
\* all of self.nodes, wherever (and whether) the plan lists the node.
C8_SummaryCoversAllNodes ==
    PlanOk =>
        LET sm == deployment_plan.summary
            n  == Len(nodes)
        IN  /\ sm.total_nodes = n
            /\ sm.total_gpus = TotalUpTo("gpu_count", n)
            /\ sm.total_gpu_memory_gb = TotalUpTo("total_gpu_memory_gb", n)
            /\ sm.total_cpu_cores = TotalUpTo("cpu_cores", n)
            /\ sm.total_memory_gb = TotalUpTo("total_memory_gb", n)
            /\ sm.total_storage_gb = TotalUpTo("total_storage_gb", n)

C8_Witness ==
    /\ PlanOk
    /\ \E i \in DOMAIN nodes :
          /\ i # PlanMaster
          /\ nodes[i].recommended_role = "master"
          /\ nodes[i].cpu_cores > 0
          /\ nodes[i].total_storage_gb > 0

\* C9: once a node is scored, the same node with a larger value on any one
\* of the five axes (everything else equal) scores at least as much.
C9_ScoreMonotonicPerAxis ==
    \A i \in DOMAIN nodes :
        Scored(i) =>
            LET n == nodes[i]
                s == n.recommended_priority
            IN  /\ \A v \in CoreValues : v >= n.cpu_cores =>
                      PriorityScore([n EXCEPT !.cpu_cores = v]) >= s
                /\ \A v \in MemoryValues : v >= n.total_memory_gb =>
                      PriorityScore([n EXCEPT !.total_memory_gb = v]) >= s
                /\ \A v \in FastValues : v >= n.fast_storage_gb =>
                      PriorityScore([n EXCEPT !.fast_storage_gb = v]) >= s
                /\ \A v \in SpeedValues : v >= n.network_speed_gbps =>
                      PriorityScore([n EXCEPT !.network_speed_gbps = v]) >= s
                /\ \A v \in GpuMemValues : v >= n.total_gpu_memory_gb =>
                      PriorityScore([n EXCEPT !.total_gpu_memory_gb = v])
                          >= s

C9_Witness ==
    \E i \in DOMAIN nodes :
        /\ Scored(i)
        /\ nodes[i].total_memory_gb = 32
        /\ nodes[i].gpu_count > 0
        /\ nodes[i].total_gpu_memory_gb = 47
        /\ PriorityScore([nodes[i] EXCEPT !.total_memory_gb = 64])
              > nodes[i].recommended_priority
        /\ PriorityScore([nodes[i] EXCEPT !.total_gpu_memory_gb = 48])
              > nodes[i].recommended_priority

\* C10: right after scoring, the role is gpu_worker when gpu_count > 0,
\* else master exactly when the score is at least 15, else worker.
C10_RoleDerivation ==
    \A i \in DOMAIN nodes :
        (Scored(i) /\ ~PlanOk) =>
            /\ nodes[i].gpu_count > 0
                  => nodes[i].recommended_role = "gpu_worker"
            /\ (nodes[i].gpu_count <= 0
                  /\ nodes[i].recommended_priority >= 15)
                  => nodes[i].recommended_role = "master"
            /\ (nodes[i].gpu_count <= 0
                  /\ nodes[i].recommended_priority < 15)
                  => nodes[i].recommended_role = "worker"

C10_Witness ==
    \E i \in DOMAIN nodes :
        /\ Scored(i)
        /\ nodes[i].gpu_count = 0
        /\ nodes[i].recommended_priority = 15
        /\ nodes[i].recommended_role = "master"

\* C13: in a discover_nodes run there is exactly one task per host, and at
\* no moment do more than min(N, 10) tasks execute.
C13_OneTaskPerHostWithinCap ==
    phase = "discovering" =>
        /\ DOMAIN task = DOMAIN node_list
        /\ DOMAIN task = DOMAIN nodes
        /\ Cardinality(Executing) <= Len(node_list)
        /\ Cardinality(Executing) <= 10

C13_Witness ==
    /\ phase = "discovering"
    /\ Len(node_list) > 10
    /\ Cardinality(Executing) = 10
    /\ \E i \in DOMAIN task : task[i] = "pending"

\* C15 (as stated): under fair scheduling discover_nodes always eventually
\* returns.
C15_DiscoveryEventuallyReturns == <>(phase = "discovered")

\* C16: under fair scheduling, with a stalled task in the run, a moment
\* comes when every task has been started and every task other than a
\* stalled one has completed, below and above the pool cap.
C16_OthersComplete ==
    <>(\A i \in DOMAIN task : task[i] \in {"finished", "raised", "hung"})

C16_Witness ==
    /\ Len(task) > PoolCap
    /\ task[1] = "hung"
    /\ \A i \in DOMAIN task : i # 1 => task[i] \in {"finished", "raised"}

\* C14: during discovery a step of one host's task changes the state of
\* that task and the NodeCapabilities of that host only: a node changes
\* only in a step of its own task, whatever the other tasks do or fail at.
C14_TaskWritesOwnNodeOnly ==
    [][ phase = "discovering" =>
          /\ DOMAIN nodes' = DOMAIN nodes
          /\ \A j \in DOMAIN nodes :
                nodes'[j] # nodes[j] =>
                    /\ task'[j] # task[j]
                    /\ \A k \in DOMAIN nodes :
                          k # j => /\ nodes'[k] = nodes[k]
                                   /\ task'[k] = task[k] ]_vars

C14_Witness ==
    /\ phase = "discovered"
    /\ \E a, b \in DOMAIN nodes :
          /\ a < b
          /\ task[a] = "raised"
          /\ nodes[a] = NodeCapabilities(nodes[a].hostname)
          /\ task[b] = "finished"
          /\ nodes[b].gpu_count > 0
          /\ nodes[b].recommended_role = "gpu_worker"


\* The probes entered so far, by name, in the order they were entered.
Entered == [k \in DOMAIN ran |-> ran[k].probe]

NoDuplicates(s) == \A a, b \in DOMAIN s : s[a] = s[b] => a = b

\* C11: a failing probe never blocks the rest of the host's task: once the
\* connection test has passed the task never ends in an exception, the
\* probes are entered in the fixed order, and whatever the probes did the
\* task goes on to finish with all eight probes entered and the node scored.
C11_ProbeFailureBlocksNothing ==
    /\ [](task[1] = "raised" => ran = <<>> /\ pc.probe = 0)
    /\ [](Entered = SubSeq(ProbeNames, 1, Len(ran)))
    /\ [](task[1] = "connected"
            => <>(task[1] = "finished" /\ Entered = ProbeNames))

\* C11 witness: the task finished, scored, after one probe failed to
\* connect and the GPU probe failed in the middle of its output.
C11_Witness ==
    /\ task[1] = "finished"
    /\ Entered = ProbeNames
    /\ conns.failed
    /\ ran[4].failed
    /\ Len(nodes[1].gpu_devices) = 1
    /\ nodes[1].recommended_priority > DefaultPriority

\* The fields a probe writes, all at the dataclass defaults.
FacetAtDefaults(name, node) ==
    LET d == NodeCapabilities(node.hostname)
        same(fields) == \A f \in fields : node[f] = d[f]
    IN  CASE name = "cpu" ->
                same({"cpu_cores", "cpu_model", "cpu_frequency"})
          [] name = "memory" ->
                same({"total_memory_gb", "available_memory_gb"})
          [] name = "storage" ->
                same({"storage_devices", "total_storage_gb",
                      "fast_storage_gb"})
          [] name = "gpu" ->
                same({"gpu_devices", "gpu_count", "total_gpu_memory_gb"})
          [] name = "network" ->
                same({"network_interfaces", "primary_interface",
                      "network_speed_gbps"})
          [] name = "os" ->
                same({"os_name", "os_version", "kernel_version"})
          [] name = "container_runtime" ->
                same({"docker_installed", "containerd_installed"})
          [] name = "kubernetes" -> same({"kubernetes_installed"})

\* C12: a probe that failed leaves every field of its facet at the
\* default.
C12_FailedProbeLeavesDefaults ==
    \A k \in DOMAIN ran :
        ran[k].failed => FacetAtDefaults(ran[k].probe, nodes[1])

\* C17: no probe is entered twice for a host, and after a connection
\* attempt to the host has failed no further attempt is made.
C17_NoAttemptAfterFailure ==
    /\ NoDuplicates(Entered)
    /\ ~conns.reattempted

\* C18: a host's task opens one session, and never has more than one
\* connection open.
C18_SingleSessionPerHost ==
    /\ conns.opened <= 1
    /\ conns.open <= 1


\* C19: once discover_nodes has returned no field of any node changes any
\* more, whatever is called afterwards.
C19_NodesReadOnlyAfterDiscovery ==
    [][phase = "discovered" => nodes' = nodes]_vars

InventoryEntries(inv) == Range(inv.kube_control_plane) \cup Range(inv.kube_node)

\* C21: the rendered inventory has the plan's control-plane node as the
\* only host of the control-plane group, and one worker entry for every
\* GPU worker and every plain worker of the plan and no other, with
\* gpu_enabled true exactly on the GPU workers' entries.
C21_InventoryGroups ==
    rendered.kind = "inventory" =>
        LET inv == rendered.output
            gpu == Range(deployment_plan.gpu_worker_nodes)
            plain == Range(deployment_plan.worker_nodes)
        IN  /\ Len(inv.kube_control_plane) = 1
            /\ inv.kube_control_plane[1].hostname
                   = deployment_plan.master_node.hostname
            /\ Len(inv.kube_node) = Len(deployment_plan.gpu_worker_nodes)
                                    + Len(deployment_plan.worker_nodes)
            /\ {e.hostname : e \in Range(inv.kube_node)} = gpu \cup plain
            /\ \A e \in Range(inv.kube_node) :
                  e.gpu_enabled <=> e.hostname \in gpu

\* C21 witness: a first render of a plan with a GPU worker and several
\* plain workers.
C21_Witness ==
    /\ rendered.kind = "inventory"
    /\ rendered.calls = 1
    /\ Len(deployment_plan.gpu_worker_nodes) = 1
    /\ Len(deployment_plan.worker_nodes) > 1
    /\ Len(rendered.output.kube_node) > 2

\* C22: every entry of a rendered inventory carries the key path the
\* caller passed on the command line, and the username when the command
\* takes one.
C22_EntriesCarryCallerArgs ==
    rendered.kind = "inventory" =>
        \A e \in InventoryEntries(rendered.output) :
            /\ e.ansible_ssh_private_key_file = rendered.args.key
            /\ rendered.args.username # NoArg
                  => e.ansible_user = rendered.args.username

\* C23: the Kubespray GPU toggles are on, and the RAG services request a
\* GPU, exactly when the plan's summary counts at least one GPU.
C23_GpuGating ==
    LET gpus == deployment_plan.summary.total_gpus > 0
        out == rendered.output
    IN  /\ rendered.kind = "kubespray" =>
              /\ out.nvidia_gpu_enabled <=> gpus
              /\ out.nvidia_driver_enabled <=> gpus
        /\ rendered.kind = "rag" =>
              /\ out.gpu_request = (IF gpus THEN "1" ELSE "0")
              /\ out.milvus_gpu_enabled <=> gpus

\* C23 witness: the Kubespray config of a plan whose only GPUs sit on the
\* control-plane node: the toggles are on though the plan has no GPU
\* worker.
C23_Witness ==
    /\ rendered.kind = "kubespray"
    /\ deployment_plan.summary.total_gpus > 0
    /\ deployment_plan.gpu_worker_nodes = <<>>
    /\ rendered.output.nvidia_gpu_enabled


\* The sizes recorded in storage_devices, summed.
RECURSIVE SumSizes(_)
SumSizes(devs) ==
    IF devs = <<>> THEN 0 ELSE devs[1].size_gb + SumSizes(Tail(devs))

\* C24: after a storage probe that did not fail, total_storage_gb is the
\* sum of the sizes of the disk-type entries (the ones recorded in
\* storage_devices): an entry of another type adds nothing.
C24_OnlyDisksCounted ==
    (Len(ran) >= 3 /\ ~ran[3].failed /\ pc.probe > 3) =>
        nodes[1].total_storage_gb = SumSizes(nodes[1].storage_devices)

\* C25: once a plan is built, building again yields the same control-plane
\* node, the same GPU-worker list and the same worker list.
C25_PlanningRepeatable ==
    [][(plan_status = "ok" /\ plan_status' = "ok") =>
          /\ deployment_plan'.master_node = deployment_plan.master_node
          /\ deployment_plan'.gpu_worker_nodes
                 = deployment_plan.gpu_worker_nodes
          /\ deployment_plan'.worker_nodes = deployment_plan.worker_nodes]_vars

\* C25 witness: the plan was built twice, the first time through the
\* fallback, which made a GPU node the control plane.
C25_Witness ==
    /\ PlanOk
    /\ builds = 2
    /\ Len(nodes) > 1
    /\ \E i \in DOMAIN nodes :
          /\ nodes[i].hostname = deployment_plan.master_node.hostname
          /\ nodes[i].gpu_count > 0
          /\ nodes[i].recommended_role = "master"

\* C26: when a host's task has ended, every connection it opened is
\* closed.
C26_NoConnectionLeak ==
    task[1] \in {"finished", "raised"} => conns.open = 0

\* C27: once the GPU probe is over, gpu_count is the number of records in
\* gpu_devices.
C27_GpuCountMatchesDevices ==
    pc.probe > 4 => nodes[1].gpu_count = Len(nodes[1].gpu_devices)

\* C28: the plan's control-plane node is a host whose connection failed
\* only when the connection of every host failed.
C28_FailedHostNotAboveDiscovered ==
    PlanOk =>
        \A i \in DOMAIN nodes :
            (nodes[i].hostname = deployment_plan.master_node.hostname
               /\ task[i] = "raised")
              => \A j \in DOMAIN task : task[j] = "raised"


\* A render whose output turns GPU support on: the Kubespray toggle, or a
\* GPU request of the RAG services.
GpuSupportRendered ==
    \/ rendered.kind = "kubespray" /\ rendered.output.nvidia_gpu_enabled
    \/ rendered.kind = "rag" /\ rendered.output.gpu_request = "1"

\* The worker entries tagged gpu_enabled in the inventory of the plan.
GpuTaggedHosts ==
    {e.hostname :
        e \in {w \in Range(Inventory(deployment_plan, "ubuntu",
                                     NoArg).kube_node) : w.gpu_enabled}}

\* C29: whenever a rendered config turns GPU support on, the plan has a
\* GPU worker and the inventory of the plan a host tagged gpu_enabled.
C29_GpuSupportImpliesGpuWorker ==
    GpuSupportRendered =>
        /\ deployment_plan.gpu_worker_nodes # <<>>
        /\ GpuTaggedHosts # {}

\* C29 (amended): whenever a rendered config turns GPU support on, some
\* node has a GPU, and every node with a GPU is either the plan's
\* control-plane node or a GPU worker of the plan, tagged gpu_enabled in
\* the inventory of the plan.
C29_GpuSupportImpliesGpuNode ==
    GpuSupportRendered =>
        /\ \E i \in DOMAIN nodes : nodes[i].gpu_count > 0
        /\ \A i \in DOMAIN nodes :
              nodes[i].gpu_count > 0 =>
                 \/ nodes[i].hostname = deployment_plan.master_node.hostname
                 \/ /\ nodes[i].hostname
                          \in Range(deployment_plan.gpu_worker_nodes)
                    /\ nodes[i].hostname \in GpuTaggedHosts

\* C29 witness: the RAG config requests a GPU for a plan whose control
\* plane is a GPU node and which has a GPU worker besides.
C29_Witness ==
    /\ rendered.kind = "rag"
    /\ rendered.output.gpu_request = "1"
    /\ Len(deployment_plan.gpu_worker_nodes) = 1
    /\ \E i \in DOMAIN nodes :
          /\ nodes[i].hostname = deployment_plan.master_node.hostname
          /\ nodes[i].gpu_count > 0


\* The number of entries of completed_tasks that are the task id.
Occurrences(s, id) == Cardinality({k \in DOMAIN s : s[k] = id})

\* C30: a task that cancel_task cancelled while it was running has status
\* cancelled once its submit_task call is over, and is in completed_tasks
\* once.
C30_CancelledStaysCancelled ==
    \A id \in manager.cancelled :
        manager.at[id] = "done" =>
            /\ manager.status[id] = "cancelled"
            /\ Occurrences(manager.completed_tasks, id) = 1

============================================================================
